---- MODULE Spec2Model ----
(***************************************************************************)
(* The geocoding resolution engine of cra-map: GeocodingService            *)
(* (src/src/geocoder.py) driven over a batch by geocode_dataframe and by   *)
(* main of geocode_addresses.py.                                           *)
(*                                                                         *)
(* Conventions.  A Python str is a sequence of one-character strings.  A   *)
(* value that may be None/NaN is a record [na, text].  A Python dict is a  *)
(* function whose DOMAIN is exactly the keys present.  A pandas cell that  *)
(* may hold None or a number is {} for None and {v} for the value v.       *)
(* Coordinates are whole degrees (41 stands for 41.0).                     *)
(***************************************************************************)
EXTENDS Integers, Sequences, FiniteSets, TLC

\* ------------------------------------------------------------------ bounds
\* Number of rows of the batch input.
MaxRows == 2
\* Largest configured checkpoint interval explored (config.py sets 100).
MaxInterval == 2

\* ------------------------------------------------------- program constants
MI_LAT_MIN == 41
MI_LAT_MAX == 48
MI_LON_MIN == -90
MI_LON_MAX == -82
\* _geocode_with_retry(query, retries=2)
Retries == 2

\* ------------------------------------------------------------- strings
\* "1 M, L MI 4": street, city L, state, zip.
AddrWithCity == <<"1", " ", "M", ",", " ", "L", " ", "M", "I", " ", "4">>
\* "2 N": no comma, so no city can be extracted.
AddrNoCity == <<"2", " ", "N">>
\* The text of the address cells of the input CSV; <<>> is an empty cell.
CsvCells == {<<>>, AddrWithCity, AddrNoCity}

NaN == [na |-> TRUE, text |-> <<>>]
Str(s) == [na |-> FALSE, text |-> s]

\* pd.read_csv with its defaults: an empty field is read as NaN.
ReadCsv(cell) == IF cell = <<>> THEN NaN ELSE Str(cell)

\* The test address == '' in place of pd.isna: NaN is not the empty string.
IsEmptyString(a) == ~a.na /\ a.text = <<>>

\* pd.isna(address)
IsNa(a) == a.na

\* f"{x}, Michigan, USA"
MichiganUSA ==
  <<",", " ", "M", "i", "c", "h", "i", "g", "a", "n", ",", " ", "U", "S", "A">>
Query(s) == s \o MichiganUSA

\* str.strip()
RECURSIVE LStrip(_)
LStrip(s) == IF s # <<>> /\ Head(s) = " " THEN LStrip(Tail(s)) ELSE s
RECURSIVE RStrip(_)
RStrip(s) ==
  IF s # <<>> /\ s[Len(s)] = " " THEN RStrip(SubSeq(s, 1, Len(s) - 1)) ELSE s
Strip(s) == RStrip(LStrip(s))

\* s.startswith(p)
StartsWith(s, p) == Len(s) >= Len(p) /\ SubSeq(s, 1, Len(p)) = p

\* s.split(sep): the sequence of the pieces between occurrences of sep.
RECURSIVE SplitFrom(_, _, _)
SplitFrom(s, sep, cur) ==
  IF s = <<>> THEN <<cur>>
  ELSE IF StartsWith(s, sep)
       THEN <<cur>> \o SplitFrom(SubSeq(s, Len(sep) + 1, Len(s)), sep, <<>>)
       ELSE SplitFrom(Tail(s), sep, Append(cur, Head(s)))
Split(s, sep) == SplitFrom(s, sep, <<>>)

\* GeocodingService._extract_city: None (na) when the address has no comma.
ExtractCity(address) ==
  LET parts == Split(address, <<",">>)
  IN IF Len(parts) >= 2
     THEN Str(Strip(Split(Strip(parts[2]), <<" ", "M", "I", " ">>)[1]))
     ELSE NaN

\* Python truthiness of an Optional[str]: None and "" are false.
Truthy(c) == ~c.na /\ c.text # <<>>

\* ----------------------------------------------------- provider responses
\* What a geopy geocode(query) call can do: return a location, return None,
\* raise GeocoderTimedOut/GeocoderUnavailable ("timeout"), raise another
\* GeocoderServiceError ("service_error"), raise anything else ("exception").
Locations ==
  { <<41, -90>>, <<48, -82>>,            \* the corners of the box
    <<40, -90>>, <<49, -82>>,            \* latitude outside
    <<41, -91>>, <<48, -81>> }           \* longitude outside
Responses ==
  { [kind |-> "loc", lat |-> l[1], lon |-> l[2]] : l \in Locations }
    \cup { [kind |-> k, lat |-> 0, lon |-> 0] :
             k \in {"none", "timeout", "service_error", "exception"} }
NoResponse == [kind |-> "nocall", lat |-> 0, lon |-> 0]

\* _is_valid_michigan_coords with the bug of checking the latitude only.
IsValidLatitudeOnly(lat, lon) == MI_LAT_MIN <= lat /\ lat <= MI_LAT_MAX

\* GeocodingService._is_valid_michigan_coords
IsValidMichiganCoords(lat, lon) ==
  (MI_LAT_MIN <= lat /\ lat <= MI_LAT_MAX)
    /\ (MI_LON_MIN <= lon /\ lon <= MI_LON_MAX)

\* dict helpers
SetField(r, k, v) == (k :> v) @@ r
Has(r, k) == k \in DOMAIN r
Get(r, k, default) == IF k \in DOMAIN r THEN r[k] ELSE default

Success(lat, lon) == [latitude |-> lat, longitude |-> lon, status |-> "success"]
\* {'status': 'error', 'message': str(e)}; the text itself is not modelled.
Error(resp) == [status |-> "error", message |-> "str(e)"]

\* GeocodingService._geocode_with_arcgis, given the provider's response
GeocodeWithArcgis(resp) ==
  IF resp.kind = "loc"
  THEN IF IsValidMichiganCoords(resp.lat, resp.lon)
       THEN Success(resp.lat, resp.lon)
       ELSE [status |-> "out_of_bounds"]
  ELSE IF resp.kind = "none" THEN [status |-> "not_found"]
  ELSE Error(resp)

\* GeocodingService._geocode_with_photon, given the provider's response
GeocodeWithPhoton(resp) ==
  IF resp.kind = "loc"
  THEN IF IsValidMichiganCoords(resp.lat, resp.lon)
       THEN Success(resp.lat, resp.lon)
       ELSE [status |-> "out_of_bounds"]
  ELSE IF resp.kind = "none" THEN [status |-> "not_found"]
  ELSE Error(resp)

\* GeocodingService._geocode_with_google, given the provider's response
GeocodeWithGoogle(resp) ==
  IF resp.kind = "loc"
  THEN IF IsValidMichiganCoords(resp.lat, resp.lon)
       THEN Success(resp.lat, resp.lon)
       ELSE [status |-> "out_of_bounds"]
  ELSE IF resp.kind = "none" THEN [status |-> "not_found"]
  ELSE Error(resp)

\* RetryAgain with the bug of retrying after a service error as well.
RetryAgainOnServiceError(resp, att) ==
  resp.kind \in {"timeout", "service_error"} /\ att < Retries

\* RetryAgain with the bug of sleeping after the timeout of the last attempt
\* too, instead of returning the error: the loop then runs out.
RetryAgainAfterLastAttempt(resp, att) == resp.kind = "timeout"

\* RetryAgain with the bug of retrying once more than the budget.
RetryAgainOnceMore(resp, att) == resp.kind = "timeout" /\ att <= Retries

\* One iteration of the loop of _geocode_with_retry: TRUE when the iteration
\* sleeps and goes round again instead of returning.
RetryAgain(resp, att) == resp.kind = "timeout" /\ att < Retries

\* GeocodeWithRetry with the bug of returning the rejected coordinates along
\* with out_of_bounds.
GeocodeWithRetryKeepsCoords(resp) ==
  IF resp.kind = "loc"
  THEN IF IsValidMichiganCoords(resp.lat, resp.lon)
       THEN Success(resp.lat, resp.lon)
       ELSE [latitude |-> resp.lat, longitude |-> resp.lon,
             status |-> "out_of_bounds"]
  ELSE IF resp.kind = "none" THEN [status |-> "not_found"]
  ELSE Error(resp)

\* What that iteration returns when it returns.
GeocodeWithRetry(resp) ==
  IF resp.kind = "loc"
  THEN IF IsValidMichiganCoords(resp.lat, resp.lon)
       THEN Success(resp.lat, resp.lon)
       ELSE [status |-> "out_of_bounds"]
  ELSE IF resp.kind = "none" THEN [status |-> "not_found"]
  ELSE Error(resp)

\* ------------------------------------------------------- durable document
EmptyMap == [a \in {} |-> 0]
Absent == [state |-> "absent", map |-> EmptyMap]
\* A file that json.load rejects: empty (just truncated) or partly written.
Malformed == [state |-> "malformed", map |-> EmptyMap]
\* json.dump(self.cache, f): the whole map.
JsonDump(c) == [state |-> "doc", map |-> c]

\* LoadCache with the bug of keeping only the entries whose status is
\* success: failed results are forgotten between runs.
LoadCacheSuccessOnly(d) ==
  IF d.state = "doc"
  THEN [a \in {k \in DOMAIN d.map : d.map[k].status = "success"} |-> d.map[a]]
  ELSE EmptyMap

\* GeocodingService._load_cache
LoadCache(d) == IF d.state = "doc" THEN d.map ELSE EmptyMap

\* A document left by an earlier run: one address resolved by ArcGIS.
PriorDoc ==
  JsonDump(Str(AddrWithCity) :>
    [latitude |-> 41, longitude |-> -90, status |-> "success",
     precision |-> "address", source |-> "arcgis"])

\* ------------------------------------------------------------------ state
VARIABLES
  input,               \* main's df['address'], one cell per row of the CSV
  test_mode,           \* the argument test_mode of geocode_dataframe
  test_limit,          \* the argument test_limit of geocode_dataframe
  rows,                \* geocode_dataframe's df['address'] (head or copy)
  google,              \* self.google_geocoder is configured
  checkpoint_interval, \* self.checkpoint_interval
  disk0,               \* the durable document when the run started
  disk,                \* the durable document (self.cache_file)
  cache,               \* self.cache
  requests_count,      \* self.requests_count
  google_requests,     \* self.google_requests
  pc,                  \* where the run is
  i,                   \* the row the loop of geocode_dataframe is at
  attempt,             \* the loop variable of _geocode_with_retry
  result,              \* the local `result`
  out,                 \* the output frame, one row per input row
  saveFrom,            \* which call of _save_cache is running
  resp,                \* the response of the provider call just made
  called,              \* the provider calls of the resolution in progress
  slept,               \* this call of geocode_address took the rate-limit sleep
  usedProvider,        \* this call of geocode_address called a provider
  saveOutcome,         \* what _save_cache did in this call, if it ran
  resolved,            \* addresses whose cache-miss resolution has returned
  order,               \* the rows handed to geocode_address, in call order
  returned,            \* per address, what geocode_address returned first
  missed,              \* the addresses a failed _save_cache had to write
  googleCalls,         \* the calls of _geocode_with_google made by the service
  run                  \* 1 in the first run of a script, 2 in the one after it

\* The inputs of the run, fixed at construction.
Config ==
  << input, test_mode, test_limit, rows, google, checkpoint_interval, disk0,
     run >>
\* The counters of the service, and the number of calls it made to Google.
Counters == << requests_count, google_requests, googleCalls >>
\* What is recorded about the call of geocode_address in progress.
CallLog == << resp, called, slept, usedProvider, saveOutcome >>
\* What is recorded about the run so far.
History == << resolved, order, returned, missed >>

vars ==
  << input, test_mode, test_limit, rows, google, checkpoint_interval, disk0, disk, cache, requests_count,
     google_requests, pc, i, attempt, result, out, saveFrom, resp, called,
     slept, usedProvider, saveOutcome, resolved, order, returned, missed,
     googleCalls, run >>

None == {}
Some(v) == {v}
NoResult == [status |-> "unset"]

\* geocode_dataframe: the frame with the five result columns set to None.
BlankRow(j, a) ==
  [idx |-> j, address |-> a, latitude |-> None, longitude |-> None,
   geocode_status |-> None, geocode_precision |-> None,
   geocode_source |-> None]

\* The row the loop writes for a NaN address.
NoAddressRow(row) ==
  [row EXCEPT !.geocode_status = Some("no_address"),
              !.geocode_precision = Some("failed")]

\* The row the loop writes from the result of geocode_address.
ResultRow(row, r) ==
  [row EXCEPT
     !.geocode_status = Some(r.status),
     !.geocode_precision = Some(Get(r, "precision", "unknown")),
     !.geocode_source = IF Has(r, "source") THEN Some(r.source) ELSE None,
     !.latitude = IF r.status = "success" THEN Some(r.latitude) ELSE @,
     !.longitude = IF r.status = "success" THEN Some(r.longitude) ELSE @]

address == rows[i]

\* The record of first returns, after geocode_address(a) has returned r.
FirstReturn(m, a, r) == IF a \in DOMAIN m THEN m ELSE (a :> r) @@ m

\* df.tail(n) in place of df.head(n): the last n rows.
TailRows(df, n) ==
  SubSeq(df, (IF n < Len(df) THEN Len(df) - n ELSE 0) + 1, Len(df))

\* df.head(n): the first n rows, or all but the last -n rows when n < 0.
HeadRows(df, n) ==
  IF n >= 0
  THEN SubSeq(df, 1, IF n < Len(df) THEN n ELSE Len(df))
  ELSE SubSeq(df, 1, IF Len(df) + n > 0 THEN Len(df) + n ELSE 0)

\* geocode_dataframe: df = df.head(test_limit).copy() or df = df.copy()
Frame(df, tm, tl) == IF tm THEN HeadRows(df, tl) ELSE df

\* ... then the five result columns are added, set to None.
BlankFrame(df) == [j \in 1..Len(df) |-> BlankRow(j, df[j])]

\* --limit of geocode_addresses.py, default 100
DefaultLimit == 100

\* A full run (no --test), at the start of the loop of geocode_dataframe.
Init ==
  /\ \E csv \in [1..MaxRows -> CsvCells] :
       input = [j \in 1..MaxRows |-> ReadCsv(csv[j])]
  /\ test_mode = FALSE
  /\ test_limit = DefaultLimit
  /\ rows = Frame(input, test_mode, test_limit)
  /\ google \in BOOLEAN
  /\ checkpoint_interval \in 1..MaxInterval
  /\ disk0 \in {Absent, PriorDoc}
  /\ disk = disk0
  /\ cache = LoadCache(disk0)
  /\ requests_count = 0
  /\ google_requests = 0
  /\ googleCalls = 0
  /\ pc = "loop"
  /\ i = 1
  /\ attempt = 0
  /\ result = NoResult
  /\ out = BlankFrame(rows)
  /\ saveFrom = "none"
  /\ resp = NoResponse
  /\ called = <<>>
  /\ slept = FALSE
  /\ usedProvider = FALSE
  /\ saveOutcome = "none"
  /\ resolved = {}
  /\ order = <<>>
  /\ returned = EmptyMap
  /\ missed = {}
  /\ run = 1

\* ------------------------------------------------- geocode_dataframe loop
\* for idx, row in df.iterrows(): a NaN address is written and skipped.
RowNoAddress ==
  /\ pc = "loop" /\ i <= Len(rows) /\ IsNa(address)
  /\ out' = [out EXCEPT ![i] = NoAddressRow(@)]
  /\ i' = i + 1
  /\ UNCHANGED << Config, Counters, CallLog, disk, cache, pc, attempt,
                  result, saveFrom, History >>

\* result = self.geocode_address(address)
RowResolve ==
  /\ pc = "loop" /\ i <= Len(rows) /\ ~IsNa(address)
  /\ pc' = "lookup"
  /\ order' = Append(order, i)
  /\ UNCHANGED << Config, Counters, CallLog, disk, cache, i, attempt,
                  result, out, saveFrom, resolved, returned, missed >>

\* if address in self.cache: return self.cache[address]
CacheHit ==
  /\ pc = "lookup" /\ address \in DOMAIN cache
  /\ result' = cache[address]
  /\ pc' = "emit"
  /\ returned' = FirstReturn(returned, address, cache[address])
  /\ UNCHANGED << Config, Counters, CallLog, disk, cache, i, attempt, out,
                  saveFrom, resolved, order, missed >>

\* CacheMiss with the bug of sleeping before every new resolution, the first
\* of the instance included.
CacheMissAlwaysSleeps ==
  /\ pc = "lookup" /\ address \notin DOMAIN cache
  /\ pc' = "sleep"
  /\ UNCHANGED << Config, Counters, CallLog, disk, cache, i, attempt,
                  result, out, saveFrom, History >>

\* the miss: if self.requests_count > 0, sleep before the first provider
CacheMiss ==
  /\ pc = "lookup" /\ address \notin DOMAIN cache
  /\ pc' = IF requests_count > 0 THEN "sleep" ELSE "arcgis"
  /\ UNCHANGED << Config, Counters, CallLog, disk, cache, i, attempt,
                  result, out, saveFrom, History >>

\* time.sleep(self.rate_limit)
RateLimitSleep ==
  /\ pc = "sleep"
  /\ slept' = TRUE
  /\ pc' = "arcgis"
  /\ UNCHANGED << Config, Counters, disk, cache, i, attempt, result, out,
                  saveFrom, resp, called, usedProvider, saveOutcome,
                  History >>

\* The record of one provider call: the adapter, the query and whether the
\* adapter returned success from it.
Call(adapter, query, ok) == [adapter |-> adapter, query |-> query, ok |-> ok]

\* result['precision'] = ...; result['source'] = ...
Tagged(res, precision, source) ==
  SetField(SetField(res, "precision", precision), "source", source)

\* CallArcgis with the bug of the adapter catching only geopy's errors, so
\* that any other exception leaves geocode_address and geocode_dataframe and
\* ends the run at main's error exit.
CallArcgisUncaught ==
  /\ pc = "arcgis"
  /\ \E r \in Responses :
       LET res == GeocodeWithArcgis(r) IN
       /\ resp' = r
       /\ called' = Append(called, Call("arcgis", Query(address.text),
                                        res.status = "success"))
       /\ IF r.kind = "exception"
          THEN /\ result' = result
               /\ pc' = "failed"
          ELSE IF res.status = "success"
          THEN /\ result' = Tagged(res, "address", "arcgis")
               /\ pc' = "store"
          ELSE /\ result' = res
               /\ pc' = "nominatim"
  /\ attempt' = 0
  /\ usedProvider' = TRUE
  /\ UNCHANGED << Config, Counters, disk, cache, i, out, saveFrom, slept,
                  saveOutcome, History >>

\* Attempt 1: ArcGIS
CallArcgis ==
  /\ pc = "arcgis"
  /\ \E r \in Responses :
       LET res == GeocodeWithArcgis(r) IN
       /\ resp' = r
       /\ called' = Append(called, Call("arcgis", Query(address.text),
                                        res.status = "success"))
       /\ IF res.status = "success"
          THEN /\ result' = Tagged(res, "address", "arcgis")
               /\ pc' = "store"
          ELSE /\ result' = res
               /\ pc' = "nominatim"
  /\ attempt' = 0
  /\ usedProvider' = TRUE
  /\ UNCHANGED << Config, Counters, disk, cache, i, out, saveFrom, slept,
                  saveOutcome, History >>

\* Attempt 2: Nominatim, one iteration of _geocode_with_retry
CallNominatim ==
  /\ pc = "nominatim"
  /\ \E r \in Responses :
       /\ resp' = r
       /\ IF RetryAgain(r, attempt)
          THEN /\ called' = Append(called,
                      Call("nominatim", Query(address.text), FALSE))
               /\ pc' = "retry_sleep"
               /\ UNCHANGED << result, attempt >>
          ELSE LET res == GeocodeWithRetry(r) IN
               /\ called' = Append(called,
                      Call("nominatim", Query(address.text),
                           res.status = "success"))
               /\ attempt' = 0
               /\ IF res.status = "success"
                  THEN /\ result' = Tagged(res, "address", "nominatim")
                       /\ pc' = "car_store"
                  ELSE /\ result' = res
                       /\ pc' = "photon"
  /\ usedProvider' = TRUE
  /\ UNCHANGED << Config, Counters, disk, cache, i, out, saveFrom, slept,
                  saveOutcome, History >>

\* RetrySleep with the bug of sleeping and going round again without
\* advancing the attempt number: the loop never runs out of attempts.
RetrySleepSameAttempt(at, back, after) ==
  /\ pc = at
  /\ pc' = back
  /\ resp' = NoResponse
  /\ UNCHANGED << Config, Counters, disk, cache, i, attempt, result, out,
                  saveFrom, called, slept, usedProvider, saveOutcome,
                  History >>

\* time.sleep(2) of _geocode_with_retry, then the for statement: the next
\* iteration while range(retries + 1) has one, else the statement after the
\* loop, return {'status': 'failed'}, back in geocode_address (which, in the
\* city fallback, sets precision failed on a result that is not a success)
RetrySleep(at, back, after) ==
  /\ pc = at
  /\ IF attempt + 1 < Retries + 1
     THEN /\ attempt' = attempt + 1
          /\ pc' = back
          /\ result' = result
     ELSE /\ attempt' = 0
          /\ pc' = after
          /\ result' = IF after = "store"
                       THEN SetField([status |-> "failed"],
                                     "precision", "failed")
                       ELSE [status |-> "failed"]
  /\ resp' = NoResponse
  /\ UNCHANGED << Config, Counters, disk, cache, i, out, saveFrom,
                  called, slept, usedProvider, saveOutcome, History >>

\* CallPhoton with the bug of going on to Google whether or not a key is
\* configured.
CallPhotonThenGoogle ==
  /\ pc = "photon"
  /\ \E r \in Responses :
       LET res == GeocodeWithPhoton(r) IN
       /\ resp' = r
       /\ called' = Append(called, Call("photon", Query(address.text),
                                        res.status = "success"))
       /\ IF res.status = "success"
          THEN /\ result' = Tagged(res, "address", "photon")
               /\ pc' = "car_store"
          ELSE /\ result' = res
               /\ pc' = "google"
  /\ usedProvider' = TRUE
  /\ UNCHANGED << Config, Counters, disk, cache, i, attempt, out, saveFrom,
                  slept, saveOutcome, History >>

\* CallPhoton with the bug of tagging its success as Nominatim's.
CallPhotonMistagged ==
  /\ pc = "photon"
  /\ \E r \in Responses :
       LET res == GeocodeWithPhoton(r) IN
       /\ resp' = r
       /\ called' = Append(called, Call("photon", Query(address.text),
                                        res.status = "success"))
       /\ IF res.status = "success"
          THEN /\ result' = Tagged(res, "address", "nominatim")
               /\ pc' = "car_store"
          ELSE /\ result' = res
               /\ pc' = IF google THEN "google" ELSE "city"
  /\ usedProvider' = TRUE
  /\ UNCHANGED << Config, Counters, disk, cache, i, attempt, out, saveFrom,
                  slept, saveOutcome, History >>

\* Attempt 3: Photon; on failure Google if configured, else the city
CallPhoton ==
  /\ pc = "photon"
  /\ \E r \in Responses :
       LET res == GeocodeWithPhoton(r) IN
       /\ resp' = r
       /\ called' = Append(called, Call("photon", Query(address.text),
                                        res.status = "success"))
       /\ IF res.status = "success"
          THEN /\ result' = Tagged(res, "address", "photon")
               /\ pc' = "car_store"
          ELSE /\ result' = res
               /\ pc' = IF google THEN "google" ELSE "city"
  /\ usedProvider' = TRUE
  /\ UNCHANGED << Config, Counters, disk, cache, i, attempt, out, saveFrom,
                  slept, saveOutcome, History >>

\* Attempt 4: Google
CallGoogle ==
  /\ pc = "google"
  /\ \E r \in Responses :
       LET res == GeocodeWithGoogle(r) IN
       /\ resp' = r
       /\ called' = Append(called, Call("google", Query(address.text),
                                        res.status = "success"))
       /\ IF res.status = "success"
          THEN /\ result' = Tagged(res, "address", "google")
               /\ google_requests' = google_requests + 1
               /\ pc' = "car_store"
          ELSE /\ result' = res
               /\ google_requests' = google_requests
               /\ pc' = "city"
  /\ googleCalls' = googleCalls + 1
  /\ usedProvider' = TRUE
  /\ UNCHANGED << Config, requests_count, disk, cache, i, attempt, out,
                  saveFrom, slept, saveOutcome, History >>

\* CityFallback with the bug of leaving the result without a precision
\* when no city can be extracted.
CityFallbackNoPrecision ==
  /\ pc = "city"
  /\ pc' = IF Truthy(ExtractCity(address.text)) THEN "city_query" ELSE "store"
  /\ attempt' = 0
  /\ resp' = NoResponse
  /\ UNCHANGED << Config, Counters, disk, cache, i, result, out, saveFrom,
                  called, slept, usedProvider, saveOutcome, History >>

\* city = self._extract_city(address); if city: ... else: precision failed
CityFallback ==
  /\ pc = "city"
  /\ IF Truthy(ExtractCity(address.text))
     THEN /\ pc' = "city_query"
          /\ result' = result
     ELSE /\ result' = SetField(result, "precision", "failed")
          /\ pc' = "store"
  /\ attempt' = 0
  /\ resp' = NoResponse
  /\ UNCHANGED << Config, Counters, disk, cache, i, out, saveFrom, called,
                  slept, usedProvider, saveOutcome, History >>

\* CallNominatimCity with the bug of tagging a city success as an address.
CallNominatimCityAsAddress ==
  /\ pc = "city_query"
  /\ \E r \in Responses :
       LET q == Query(ExtractCity(address.text).text) IN
       /\ resp' = r
       /\ IF RetryAgain(r, attempt)
          THEN /\ called' = Append(called, Call("nominatim", q, FALSE))
               /\ pc' = "city_retry_sleep"
               /\ UNCHANGED << result, attempt >>
          ELSE LET res == GeocodeWithRetry(r) IN
               /\ called' = Append(called,
                      Call("nominatim", q, res.status = "success"))
               /\ attempt' = 0
               /\ result' = IF res.status = "success"
                            THEN Tagged(res, "address", "nominatim")
                            ELSE SetField(res, "precision", "failed")
               /\ pc' = "store"
  /\ usedProvider' = TRUE
  /\ UNCHANGED << Config, Counters, disk, cache, i, out, saveFrom, slept,
                  saveOutcome, History >>

\* CallNominatimCity with the bug of leaving the last address-level result
\* in place when the city query fails.
CallNominatimCityKeepsLast ==
  /\ pc = "city_query"
  /\ \E r \in Responses :
       LET q == Query(ExtractCity(address.text).text) IN
       /\ resp' = r
       /\ IF RetryAgain(r, attempt)
          THEN /\ called' = Append(called, Call("nominatim", q, FALSE))
               /\ pc' = "city_retry_sleep"
               /\ UNCHANGED << result, attempt >>
          ELSE LET res == GeocodeWithRetry(r) IN
               /\ called' = Append(called,
                      Call("nominatim", q, res.status = "success"))
               /\ attempt' = 0
               /\ result' = IF res.status = "success"
                            THEN Tagged(res, "city", "nominatim_city")
                            ELSE SetField(result, "precision", "failed")
               /\ pc' = "store"
  /\ usedProvider' = TRUE
  /\ UNCHANGED << Config, Counters, disk, cache, i, out, saveFrom, slept,
                  saveOutcome, History >>

\* result = self._geocode_with_retry(f"{city}, Michigan, USA"), one iteration
CallNominatimCity ==
  /\ pc = "city_query"
  /\ \E r \in Responses :
       LET q == Query(ExtractCity(address.text).text) IN
       /\ resp' = r
       /\ IF RetryAgain(r, attempt)
          THEN /\ called' = Append(called, Call("nominatim", q, FALSE))
               /\ pc' = "city_retry_sleep"
               /\ UNCHANGED << result, attempt >>
          ELSE LET res == GeocodeWithRetry(r) IN
               /\ called' = Append(called,
                      Call("nominatim", q, res.status = "success"))
               /\ attempt' = 0
               /\ result' = IF res.status = "success"
                            THEN Tagged(res, "city", "nominatim_city")
                            ELSE SetField(res, "precision", "failed")
               /\ pc' = "store"
  /\ usedProvider' = TRUE
  /\ UNCHANGED << Config, Counters, disk, cache, i, out, saveFrom, slept,
                  saveOutcome, History >>

\* ------------------------------------------- caching and checkpointing
\* Store with the bug of caching successful results only.
StoreSuccessOnly(at, next) ==
  /\ pc = at
  /\ cache' = IF result.status = "success"
              THEN (address :> result) @@ cache ELSE cache
  /\ pc' = next
  /\ resp' = NoResponse
  /\ called' = <<>>
  /\ UNCHANGED << Config, Counters, disk, i, attempt, result, out, saveFrom,
                  slept, usedProvider, saveOutcome, History >>

\* Store with the bug of _cache_and_return not writing the cache: only the
\* end of geocode_address does.
StoreAtEndOnly(at, next) ==
  /\ pc = at
  /\ cache' = IF at = "store" THEN (address :> result) @@ cache ELSE cache
  /\ pc' = next
  /\ resp' = NoResponse
  /\ called' = <<>>
  /\ UNCHANGED << Config, Counters, disk, i, attempt, result, out, saveFrom,
                  slept, usedProvider, saveOutcome, History >>

\* self.cache[address] = result, at line 170 ("store") and in
\* _cache_and_return ("car_store").  The provider calls are over.
Store(at, next) ==
  /\ pc = at
  /\ cache' = (address :> result) @@ cache
  /\ pc' = next
  /\ resp' = NoResponse
  /\ called' = <<>>
  /\ UNCHANGED << Config, Counters, disk, i, attempt, result, out, saveFrom,
                  slept, usedProvider, saveOutcome, History >>

\* Count with the bug of never running the checkpoint.
CountSkipsCheckpoint(at) ==
  /\ pc = at
  /\ requests_count' = requests_count + 1
  /\ pc' = "return"
  /\ UNCHANGED << Config, CallLog, google_requests, googleCalls, disk, cache,
                  i, attempt, result, out, saveFrom, History >>

\* Count with the bug of testing the counter before incrementing it.
CountTestsBeforeIncrement(at) ==
  /\ pc = at
  /\ requests_count' = requests_count + 1
  /\ IF requests_count % checkpoint_interval = 0
     THEN pc' = "save_open" /\ saveFrom' = "checkpoint"
     ELSE pc' = "return" /\ saveFrom' = saveFrom
  /\ UNCHANGED << Config, CallLog, google_requests, googleCalls, disk, cache,
                  i, attempt, result, out, History >>

\* self.requests_count += 1; if it is a multiple of the interval, save
Count(at) ==
  /\ pc = at
  /\ requests_count' = requests_count + 1
  /\ IF requests_count' % checkpoint_interval = 0
     THEN pc' = "save_open" /\ saveFrom' = "checkpoint"
     ELSE pc' = "return" /\ saveFrom' = saveFrom
  /\ UNCHANGED << Config, CallLog, google_requests, googleCalls, disk, cache,
                  i, attempt, result, out, History >>

\* Where _save_cache returns to.
AfterSave ==
  IF saveFrom = "checkpoint" THEN "return"
  ELSE IF saveFrom = "clear" THEN "recode" ELSE "done"

\* _save_cache: mkdir and open(self.cache_file, 'w'), which truncates the
\* file; an exception here is logged and the file is as it was.
SaveOpen ==
  /\ pc = "save_open"
  /\ \/ /\ disk.state # "inaccessible"
        /\ disk' = Malformed
        /\ pc' = "save_dump"
        /\ UNCHANGED << saveOutcome, missed >>
     \/ /\ disk' = disk
        /\ pc' = AfterSave
        /\ saveOutcome' = "failed"
        /\ missed' = missed \cup DOMAIN cache
  /\ UNCHANGED << Config, Counters, cache, i, attempt, result, out,
                  saveFrom, resp, called, slept, usedProvider, resolved,
                  order, returned >>

\* SaveDump with the bug of letting the exception of a failed write leave
\* _save_cache, so that it ends the run at main's error exit.
SaveDumpRaises ==
  /\ pc = "save_dump"
  /\ \/ /\ disk' = JsonDump(cache)
        /\ saveOutcome' = "written"
        /\ missed' = missed
        /\ pc' = AfterSave
     \/ /\ disk' = Malformed
        /\ saveOutcome' = "failed"
        /\ missed' = missed \cup DOMAIN cache
        /\ pc' = "failed"
  /\ UNCHANGED << Config, Counters, cache, i, attempt, result, out,
                  saveFrom, resp, called, slept, usedProvider, resolved,
                  order, returned >>

\* _save_cache: json.dump(self.cache, f) and the close of the file; an
\* exception while writing is logged and leaves a partly written file.
SaveDump ==
  /\ pc = "save_dump"
  /\ \/ /\ disk' = JsonDump(cache)
        /\ saveOutcome' = "written"
        /\ missed' = missed
     \/ /\ disk' = Malformed
        /\ saveOutcome' = "failed"
        /\ missed' = missed \cup DOMAIN cache
  /\ pc' = AfterSave
  /\ UNCHANGED << Config, Counters, cache, i, attempt, result, out,
                  saveFrom, resp, called, slept, usedProvider, resolved,
                  order, returned >>

\* return result, from a cache miss
Return ==
  /\ pc = "return"
  /\ resolved' = resolved \cup {address}
  /\ returned' = FirstReturn(returned, address, result)
  /\ pc' = "emit"
  /\ UNCHANGED << Config, Counters, CallLog, disk, cache, i, attempt,
                  result, out, saveFrom, order, missed >>

\* Emit with the bug of writing at the position among the resolved rows
\* instead of at the row's index.
EmitAtPosition ==
  /\ pc = "emit"
  /\ out' = [out EXCEPT ![Len(order)] = ResultRow(@, result)]
  /\ i' = i + 1
  /\ pc' = "loop"
  /\ result' = NoResult
  /\ slept' = FALSE
  /\ usedProvider' = FALSE
  /\ saveOutcome' = "none"
  /\ UNCHANGED << Config, Counters, disk, cache, attempt, saveFrom, resp,
                  called, History >>

\* geocode_dataframe writes the row from the result and takes the next row
Emit ==
  /\ pc = "emit"
  /\ out' = [out EXCEPT ![i] = ResultRow(@, result)]
  /\ i' = i + 1
  /\ pc' = "loop"
  /\ result' = NoResult
  /\ slept' = FALSE
  /\ usedProvider' = FALSE
  /\ saveOutcome' = "none"
  /\ UNCHANGED << Config, Counters, disk, cache, attempt, saveFrom, resp,
                  called, History >>

\* FinalSave with the bug of leaving the batch without the final save.
FinalSaveSkipped ==
  /\ pc = "loop" /\ i > Len(rows)
  /\ pc' = "done"
  /\ UNCHANGED << Config, Counters, CallLog, disk, cache, i, attempt,
                  result, out, saveFrom, History >>

\* after the loop: the final self._save_cache()
FinalSave ==
  /\ pc = "loop" /\ i > Len(rows)
  /\ pc' = "save_open"
  /\ saveFrom' = "final"
  /\ UNCHANGED << Config, Counters, CallLog, disk, cache, i, attempt,
                  result, out, History >>

\* Interrupt with the bug of a handler in geocode_address that turns the
\* cancellation of a resolution in progress into a cached error result.
InterruptCachesError ==
  /\ pc \notin {"done", "interrupted", "failed"}
  /\ pc' = "interrupted"
  /\ cache' = IF pc \in {"sleep", "arcgis", "nominatim", "retry_sleep",
                          "photon", "google", "city", "city_query",
                          "city_retry_sleep"}
              THEN (address :> [status |-> "error"]) @@ cache
              ELSE cache
  /\ result' = NoResult
  /\ resp' = NoResponse
  /\ called' = <<>>
  /\ slept' = FALSE
  /\ usedProvider' = FALSE
  /\ saveOutcome' = "none"
  /\ attempt' = 0
  /\ saveFrom' = "none"
  /\ out' = BlankFrame(rows)
  /\ UNCHANGED << Config, Counters, disk, i, History >>

\* main: KeyboardInterrupt reaches the handler, which prints and exits 0.
\* No handler of the pipeline catches it (they catch Exception), and the
\* handler does not save.  The frame and the locals are gone.
Interrupt ==
  /\ pc \notin {"done", "interrupted", "failed"}
  /\ pc' = "interrupted"
  /\ result' = NoResult
  /\ resp' = NoResponse
  /\ called' = <<>>
  /\ slept' = FALSE
  /\ usedProvider' = FALSE
  /\ saveOutcome' = "none"
  /\ attempt' = 0
  /\ saveFrom' = "none"
  /\ out' = BlankFrame(rows)
  /\ UNCHANGED << Config, Counters, disk, cache, i, History >>

Next ==
  \/ RowNoAddress
  \/ RowResolve
  \/ CacheHit
  \/ CacheMiss
  \/ RateLimitSleep
  \/ CallArcgis
  \/ CallNominatim
  \/ RetrySleep("retry_sleep", "nominatim", "photon")
  \/ CallPhoton
  \/ CallGoogle
  \/ CityFallback
  \/ CallNominatimCity
  \/ RetrySleep("city_retry_sleep", "city_query", "store")
  \/ Store("store", "count")
  \/ Store("car_store", "car_count")
  \/ Count("count")
  \/ Count("car_count")
  \/ SaveOpen
  \/ SaveDump
  \/ Return
  \/ Emit
  \/ FinalSave
  \/ Interrupt

Spec == Init /\ [][Next]_vars

\* ------------------------------------------------- main, from its start
\* A cache file that exists and cannot be opened for reading.
Unreadable == [state |-> "unreadable", map |-> EmptyMap]
\* A cache file in a directory the process may not search: stat, mkdir and
\* open fail with EACCES.
Inaccessible == [state |-> "inaccessible", map |-> EmptyMap]

\* What main is given, other than the frame geocode_dataframe works on.
Args ==
  << input, test_mode, test_limit, google, checkpoint_interval, disk0, run >>

\* main before GeocodingService() is constructed: the CSV has been read, the
\* arguments parsed; modes, limits, docs and intervals are the sets the
\* arguments, the cache file and the configured interval are drawn from.
MainInit(modes, limits, docs, intervals) ==
  /\ \E csv \in [1..MaxRows -> CsvCells] :
       input = [j \in 1..MaxRows |-> ReadCsv(csv[j])]
  /\ test_mode \in modes
  /\ test_limit \in limits
  /\ rows = <<>>
  /\ google \in BOOLEAN
  /\ checkpoint_interval \in intervals
  /\ disk0 \in docs
  /\ disk = disk0
  /\ cache = EmptyMap
  /\ requests_count = 0
  /\ google_requests = 0
  /\ googleCalls = 0
  /\ pc = "main"
  /\ i = 1
  /\ attempt = 0
  /\ result = NoResult
  /\ out = <<>>
  /\ saveFrom = "none"
  /\ resp = NoResponse
  /\ called = <<>>
  /\ slept = FALSE
  /\ usedProvider = FALSE
  /\ saveOutcome = "none"
  /\ resolved = {}
  /\ order = <<>>
  /\ returned = EmptyMap
  /\ missed = {}
  /\ run = 1

\* geocoder = GeocodingService(): self.cache = self._load_cache() and the
\* counters at 0.  _load_cache catches what open and json.load raise, but
\* self.cache_file.exists() is outside its try: when stat fails with EACCES,
\* Path.exists raises PermissionError on the interpreters that re-raise what
\* is not ENOENT/ENOTDIR/EBADF/ELOOP and returns False on the others.  What
\* is raised leaves __init__ and reaches main's `except Exception`, which
\* prints the error and exits.
Construct ==
  /\ pc = "main"
  /\ \/ /\ cache' = LoadCache(disk)
        /\ pc' = "start"
     \/ /\ disk.state = "inaccessible"
        /\ cache' = cache
        /\ pc' = "failed"
  /\ requests_count' = 0
  /\ google_requests' = 0
  /\ googleCalls' = 0
  /\ UNCHANGED << Config, CallLog, disk, i, attempt, result, out, saveFrom,
                  History >>

\* geocode_dataframe(df, test_mode, test_limit) up to its loop: the head or
\* the copy of the frame, and the result columns.
StartFrame ==
  /\ pc = "start"
  /\ rows' = Frame(input, test_mode, test_limit)
  /\ out' = BlankFrame(rows')
  /\ pc' = "loop"
  /\ UNCHANGED << Args, Counters, CallLog, disk, cache, i, attempt, result,
                  saveFrom, History >>

NextMain ==
  \/ Construct
  \/ StartFrame
  \/ Next

\* Runs of `geocode_addresses.py --test --limit L` on a two-row CSV with
\* L = 0 .. MaxRows + 1, checkpointing after every new resolution.
InitTestMode ==
  MainInit({TRUE}, 0..(MaxRows + 1), {Absent, PriorDoc}, {1})
SpecTestMode == InitTestMode /\ [][NextMain]_vars

\* Full runs that find the cache file absent, well-formed, malformed,
\* unreadable or inaccessible.
InitLoad ==
  MainInit({FALSE}, {DefaultLimit},
           {Absent, PriorDoc, Malformed, Unreadable, Inaccessible}, {1})
SpecLoad == InitLoad /\ [][NextMain]_vars

\* ================================================================ claims
\* geocode_address(address) has been called for an earlier row of this run.
SecondCall == \E j \in 1..(i - 1) : rows[j] = rows[i]

\* C1. Idempotence: when geocode_address returns for an address it has
\* already been called with on this instance, it returns what the first call
\* returned, and the call made no provider call, took no rate-limit sleep
\* and ran no checkpoint save.
C1_Idempotence ==
  (pc = "emit" /\ SecondCall) =>
    /\ address \in DOMAIN returned
    /\ result = returned[address]
    /\ ~usedProvider
    /\ called = <<>>
    /\ ~slept
    /\ saveOutcome = "none"

\* A second call for an address whose first call in this run was a miss that
\* ended in a failure.
C1_Witness ==
  /\ pc = "emit" /\ SecondCall
  /\ address \in resolved
  /\ result.status = "not_found"

\* The address-level adapters in priority order.
AdapterOrder ==
  IF google THEN <<"arcgis", "nominatim", "photon", "google">>
  ELSE <<"arcgis", "nominatim", "photon">>
Rank(a) ==
  IF a = "arcgis" THEN 1 ELSE IF a = "nominatim" THEN 2
  ELSE IF a = "photon" THEN 3 ELSE 4
\* The provider calls of this resolution made with the full address.
AddressCalls == SelectSeq(called, LAMBDA c : c.query = Query(address.text))
LastCall == called[Len(called)]

\* C2. Fallback ordering: the address-level calls of a resolution start at
\* ArcGIS and go through Nominatim, Photon and (only if configured) Google in
\* that order without skipping one; no call follows a call that returned
\* success; the city query comes after the address-level calls; and when an
\* address-level call succeeds the result is success / address with the
\* source of that adapter.
C2_FallbackOrdering ==
  called # <<>> =>
    LET ac == AddressCalls
        n == Len(AddressCalls)
    IN /\ n >= 1
       /\ ac[1].adapter = "arcgis"
       /\ \A k \in 1..n : called[k] = ac[k]
       /\ \A k \in 1..n : Rank(ac[k].adapter) <= Len(AdapterOrder)
       /\ \A k \in 1..(n - 1) :
            \/ Rank(ac[k + 1].adapter) = Rank(ac[k].adapter) + 1
            \/ ac[k + 1].adapter = "nominatim" /\ ac[k].adapter = "nominatim"
       /\ \A k \in 1..(Len(called) - 1) : ~called[k].ok
       /\ (LastCall.ok /\ Len(called) = n) =>
            /\ pc \in {"store", "car_store"}
            /\ result.status = "success"
            /\ result.precision = "address"
            /\ result.source = LastCall.adapter

\* Photon succeeded after ArcGIS and Nominatim failed.
C2_Witness ==
  /\ pc = "car_store"
  /\ Len(called) >= 3
  /\ LastCall.adapter = "photon" /\ LastCall.ok
  /\ result.source = "photon"

CityText == ExtractCity(address.text).text
HasCity == Truthy(ExtractCity(address.text))

\* C3. City degradation: when the resolution reaches the point of caching
\* after ArcGIS failed, every configured address-level adapter was called and
\* failed; if the address has a city token the last call is the city query,
\* made through Nominatim; and if that call succeeded the result is exactly
\* success / city / nominatim_city with the coordinates of its response.
C3_CityDegradation ==
  (pc = "store" /\ ~called[1].ok) =>
    /\ { AddressCalls[k].adapter : k \in 1..Len(AddressCalls) }
         = { AdapterOrder[k] : k \in 1..Len(AdapterOrder) }
    /\ \A k \in 1..Len(AddressCalls) : ~AddressCalls[k].ok
    /\ \A k \in 1..Len(called) :
         called[k].query # Query(address.text) =>
           called[k].adapter = "nominatim" /\ called[k].query = Query(CityText)
    /\ HasCity <=> Len(called) > Len(AddressCalls)
    /\ (HasCity /\ LastCall.ok) =>
         result = [status |-> "success", precision |-> "city",
                   source |-> "nominatim_city",
                   latitude |-> resp.lat, longitude |-> resp.lon]

\* The city query succeeded after Google, the last address-level adapter,
\* was called and failed.
C3_Witness ==
  /\ pc = "store" /\ google
  /\ Len(called) >= 5
  /\ LastCall.query = Query(<<"L">>) /\ LastCall.ok
  /\ result.precision = "city"

\* The location of the last response lies outside the inclusive box.
OutsideBox ==
  \/ resp.lat < MI_LAT_MIN \/ resp.lat > MI_LAT_MAX
  \/ resp.lon < MI_LON_MIN \/ resp.lon > MI_LON_MAX

\* Where the pipeline goes when the adapter of the last call did not succeed.
NextAfterFailure ==
  IF LastCall.query # Query(address.text) THEN "store"
  ELSE IF LastCall.adapter = "arcgis" THEN "nominatim"
  ELSE IF LastCall.adapter = "nominatim" THEN "photon"
  ELSE IF LastCall.adapter = "photon" /\ google THEN "google"
  ELSE "city"

\* C4. Bounds rejection: right after a provider call of any adapter, a
\* location outside the inclusive box gives status out_of_bounds without
\* latitude or longitude and the pipeline is at the step that follows a
\* not_found of that adapter; a location in the box, its edges included, is
\* a success carrying that location.
C4_BoundsRejection ==
  /\ (resp.kind = "loc" /\ OutsideBox) =>
       /\ result.status = "out_of_bounds"
       /\ ~Has(result, "latitude") /\ ~Has(result, "longitude")
       /\ ~LastCall.ok
       /\ pc = NextAfterFailure
  /\ resp.kind = "none" =>
       /\ result.status = "not_found"
       /\ pc = NextAfterFailure
  /\ (resp.kind = "loc" /\ ~OutsideBox) =>
       /\ result.status = "success"
       /\ result.latitude = resp.lat /\ result.longitude = resp.lon

\* Photon answered with a longitude west of the box and, Google not being
\* configured, the pipeline is at the city fallback.
C4_Witness ==
  /\ resp.kind = "loc" /\ resp.lon = MI_LON_MIN - 1
  /\ LastCall.adapter = "photon"
  /\ ~google /\ pc = "city"

\* The status an adapter gives a response that is not a usable location.
FailureStatus ==
  IF resp.kind = "loc" THEN "out_of_bounds"
  ELSE IF resp.kind = "none" THEN "not_found" ELSE "error"

\* C5. Total failure: when the city query, made after every address-level
\* adapter failed, fails too, the result has precision failed, no latitude,
\* longitude or source, and the status of that city query; and that result is
\* the cache entry of the address when geocode_address returns it.
C5_TotalFailure ==
  /\ (pc = "store" /\ HasCity /\ ~called[1].ok /\ ~LastCall.ok) =>
       /\ LastCall.query = Query(CityText)
       /\ result.precision = "failed"
       /\ result.status = FailureStatus
       /\ ~Has(result, "latitude") /\ ~Has(result, "longitude")
       /\ ~Has(result, "source")
  /\ (pc \in {"count", "return"} /\ result.status # "success") =>
       /\ result.precision = "failed"
       /\ address \in DOMAIN cache
       /\ cache[address] = result

\* A city query that failed with an error is being returned.
C5_Witness ==
  /\ pc = "return" /\ HasCity
  /\ result.status = "error" /\ result.precision = "failed"
  /\ cache[address] = result

\* C6. Checkpoint durability: when a cache-miss resolution returns, a save
\* was run in it exactly if the count of new resolutions is a multiple of the
\* checkpoint interval; the count is the number of addresses resolved so far;
\* and if the save wrote the document, loading the document gives the entry
\* of every address resolved so far in the run.
C6_CheckpointDurability ==
  pc = "return" =>
    /\ (saveOutcome # "none") <=> (requests_count % checkpoint_interval = 0)
    /\ Cardinality(resolved \cup {address}) = requests_count
    /\ saveOutcome = "written" =>
         /\ disk.state = "doc"
         /\ \A a \in resolved \cup {address} :
              /\ a \in DOMAIN LoadCache(disk)
              /\ LoadCache(disk)[a] = cache[a]

\* The second new resolution of a run with interval 2 returns after its
\* checkpoint wrote the document.
C6_Witness ==
  /\ pc = "return"
  /\ checkpoint_interval = 2 /\ requests_count = 2
  /\ saveOutcome = "written"

\* C7. Progress preserved on cancellation: when the run has exited on an
\* interruption, the durable document holds an entry for every address
\* resolved so far in the run.
C7_ProgressPreservedOnCancellation ==
  pc = "interrupted" =>
    \A a \in resolved : a \in DOMAIN LoadCache(disk)

\* C8. Durable cache valid under interruption, for a run that starts from a
\* well-formed document: at every point of the run, the middle of a
\* checkpoint or final write included, the durable document is a well-formed
\* document whose entries are entries of the in-memory cache, so that a load
\* returns them.
C8_DurableValidUnderInterruption ==
  disk0.state = "doc" =>
    /\ disk.state = "doc"
    /\ \A a \in DOMAIN LoadCache(disk) :
         a \in DOMAIN cache /\ cache[a] = LoadCache(disk)[a]
    /\ \A a \in DOMAIN LoadCache(disk0) : a \in DOMAIN LoadCache(disk)

\* C9. Row-order preservation: the output has one row per input row, at the
\* same index and with the input address; the rows before the loop position
\* hold the values of the result first returned for their own address (or
\* no_address), the rows from the loop position on are still blank; and the
\* rows were handed to geocode_address in increasing index order, every
\* row with an address before the loop position exactly once.
C9_RowOrderPreservation ==
  pc # "interrupted" =>
    /\ Len(out) = Len(rows)
    /\ \A j \in 1..Len(rows) :
         /\ out[j].idx = j
         /\ out[j].address = rows[j]
         /\ j >= i =>
              /\ out[j].geocode_status = {} /\ out[j].geocode_precision = {}
              /\ out[j].geocode_source = {}
              /\ out[j].latitude = {} /\ out[j].longitude = {}
         /\ (j < i /\ rows[j].na) => out[j].geocode_status = {"no_address"}
         /\ (j < i /\ ~rows[j].na) =>
              /\ rows[j] \in DOMAIN returned
              /\ LET r == returned[rows[j]] IN
                 /\ out[j].geocode_status = {r.status}
                 /\ out[j].geocode_precision =
                      (IF Has(r, "precision") THEN {r.precision}
                       ELSE {"unknown"})
                 /\ out[j].geocode_source =
                      (IF Has(r, "source") THEN {r.source} ELSE {})
                 /\ out[j].latitude =
                      (IF r.status = "success" THEN {r.latitude} ELSE {})
                 /\ out[j].longitude =
                      (IF r.status = "success" THEN {r.longitude} ELSE {})
    /\ \A k \in 1..(Len(order) - 1) : order[k] < order[k + 1]
    /\ { order[k] : k \in 1..Len(order) }
         = { j \in 1..Len(rows) :
               ~rows[j].na /\ (j < i \/ (j = i /\ pc # "loop")) }

\* The batch [no address, address] has run to its end and the second row was
\* resolved.
C9_Witness ==
  /\ pc = "done"
  /\ rows[1].na /\ ~rows[2].na
  /\ out[1].geocode_status = {"no_address"}
  /\ out[2].geocode_status = {"success"}

\* C10. No-address short-circuit: the step the loop takes on a row whose
\* address is NaN (an absent or empty cell) writes no_address / failed with no
\* latitude, longitude or source into that row and goes to the next row,
\* and changes neither the cache, the document, the counters nor the record
\* of provider calls, sleeps and calls of geocode_address.
C10_NoAddressShortCircuit ==
  [][ (pc = "loop" /\ i <= Len(rows) /\ rows[i].na /\ pc' # "interrupted") =>
        /\ pc' = "loop" /\ i' = i + 1
        /\ out'[i].geocode_status = {"no_address"}
        /\ out'[i].geocode_precision = {"failed"}
        /\ out'[i].geocode_source = {}
        /\ out'[i].latitude = {} /\ out'[i].longitude = {}
        /\ UNCHANGED << cache, disk, requests_count, google_requests, resp,
                        called, slept, usedProvider, saveOutcome, resolved,
                        order, returned >> ]_vars

\* An empty cell, read as NaN, has been passed over as no_address.
C10_Witness ==
  /\ pc = "loop" /\ i = 2
  /\ rows[1] = ReadCsv(<<>>)
  /\ out[1].geocode_status = {"no_address"}

\* The number of rows a run in test mode takes from the input.
Limit == IF test_limit < Len(input) THEN test_limit ELSE Len(input)
\* The addresses of those rows.
FirstAddresses == { input[j] : j \in 1..Limit }
\* The row the loop writes for row j of the input, in either mode.
RowOf(j) ==
  IF IsNa(input[j]) THEN NoAddressRow(BlankRow(j, input[j]))
  ELSE ResultRow(BlankRow(j, input[j]), returned[input[j]])

\* C11. Test-mode limiting: a run with test_mode and a limit L >= 0 works on
\* exactly the first min(L, n) rows of the input, with their indexes and in
\* input order; each row it has passed holds what the loop writes from the
\* value geocode_address returned for that row's address (the relation a full
\* run has, C9); the run ends after row min(L, n); and no address outside the
\* first L rows is resolved, returned or added to the cache.
C11_TestModeLimiting ==
  (test_mode /\ test_limit >= 0) =>
    /\ resolved \subseteq FirstAddresses
    /\ DOMAIN returned \subseteq FirstAddresses
    /\ DOMAIN cache \subseteq (DOMAIN LoadCache(disk0) \cup FirstAddresses)
    /\ \A k \in 1..(Len(order) - 1) : order[k] < order[k + 1]
    /\ \A k \in 1..Len(order) : order[k] \in 1..Limit
    /\ pc \notin {"main", "start", "interrupted"} =>
         /\ Len(rows) = Limit
         /\ \A j \in 1..Limit : rows[j] = input[j]
         /\ i \in 1..(Limit + 1)
         /\ { order[k] : k \in 1..Len(order) }
              = { j \in 1..Limit :
                    ~IsNa(input[j]) /\ (j < i \/ (j = i /\ pc # "loop")) }
    /\ pc \notin {"main", "start", "interrupted"} =>
         /\ Len(out) = Limit
         /\ \A j \in 1..Limit :
              out[j] = IF j < i THEN RowOf(j) ELSE BlankRow(j, input[j])
    /\ pc \in {"save_open", "save_dump", "done"} /\ saveFrom = "final" =>
         i = Limit + 1

\* A run with limit 1 on two rows with different addresses has ended: one
\* output row, resolved, and the second address not in the cache.
C11_Witness ==
  /\ test_mode /\ test_limit = 1 /\ pc = "done"
  /\ Len(out) = 1 /\ out[1].geocode_status = {"success"}
  /\ ~IsNa(input[2]) /\ input[2] # input[1]
  /\ input[2] \notin DOMAIN cache

\* An earlier new resolution of this instance has returned.
NotFirstNew == resolved \ {address} # {}

\* C12. Rate limiting: the rate-limit delay is entered only by a cache miss
\* that has made no provider call and has not yet slept; when a new
\* resolution is about to make its first provider call it has slept exactly
\* if the instance had counted a resolution before; a call of geocode_address
\* that called a provider, whichever adapter served it, slept exactly if it is
\* not the first new resolution of the instance; and a call that called no
\* provider (a cache hit) did not sleep.
C12_RateLimiting ==
  /\ pc = "sleep" =>
       ~slept /\ ~usedProvider /\ called = <<>> /\ requests_count > 0
  /\ pc = "arcgis" =>
       ~usedProvider /\ called = <<>> /\ (slept <=> requests_count > 0)
  /\ usedProvider => (slept <=> NotFirstNew)
  /\ (~usedProvider /\ pc \notin {"sleep", "arcgis"}) => ~slept

\* The second new resolution of the instance, served by Photon, returns
\* after having slept.
C12_Witness ==
  /\ pc = "return" /\ requests_count = 2
  /\ usedProvider /\ slept
  /\ result.status = "success" /\ result.source = "photon"

\* The number of calls this resolution has made to Nominatim with query q.
CallsOf(q) ==
  Len(SelectSeq(called, LAMBDA c : c.adapter = "nominatim" /\ c.query = q))
AddressQuery == Query(address.text)
CityQuery == Query(CityText)

\* C13. Retry policy of the Nominatim adapter, for the address query and for
\* the city query alike: the inter-retry delay is entered only after a call
\* that timed out (or found the service unavailable) and only when fewer
\* than Retries + 1 = 3 calls have been made; the calls made so far are one
\* more than the delays taken; a call is about to be made only if the delays
\* taken equal the calls made, at most Retries; and when the last call of the
\* adapter timed out and no delay follows, 3 calls were made, the adapter's
\* result is status error, and the pipeline is at Photon (address query) or
\* at the caching of the failed result (city query).
C13_RetryPolicy ==
  /\ pc = "retry_sleep" =>
       /\ resp.kind = "timeout" /\ attempt < Retries
       /\ CallsOf(AddressQuery) = attempt + 1
  /\ pc = "nominatim" =>
       /\ attempt <= Retries /\ CallsOf(AddressQuery) = attempt
       /\ attempt > 0 => resp = NoResponse
  /\ pc = "city_retry_sleep" =>
       /\ resp.kind = "timeout" /\ attempt < Retries
       /\ CallsOf(CityQuery) = attempt + 1
  /\ pc = "city_query" =>
       /\ attempt <= Retries /\ CallsOf(CityQuery) = attempt
       /\ attempt > 0 => resp = NoResponse
  /\ (resp.kind = "timeout" /\ LastCall.adapter = "nominatim"
        /\ pc \notin {"retry_sleep", "city_retry_sleep"}) =>
       /\ CallsOf(LastCall.query) = Retries + 1
       /\ result.status = "error" /\ Has(result, "message")
       /\ ~Has(result, "latitude") /\ ~Has(result, "longitude")
       /\ pc = IF LastCall.query = AddressQuery THEN "photon" ELSE "store"

\* Nominatim timed out three times on the address query and the pipeline is
\* at Photon with the adapter's error.
C13_Witness ==
  /\ pc = "photon" /\ resp.kind = "timeout"
  /\ CallsOf(AddressQuery) = 3
  /\ result.status = "error"

\* The points of a run of main that has not ended on an error.
RunPoints ==
  { "main", "start", "loop", "lookup", "sleep", "arcgis", "nominatim",
    "retry_sleep", "photon", "google", "city", "city_query",
    "city_retry_sleep", "store", "car_store", "count", "car_count",
    "save_open", "save_dump", "return", "emit", "done", "interrupted" }

\* C14. Cache load never aborts a run: whatever the cache file is when the
\* service is constructed (absent, well-formed, malformed, unreadable, in a
\* directory that cannot be searched), the run is never at an error exit; right after construction the cache is
\* exactly the mapping of a well-formed file and empty for any other; and the
\* loaded entries stay in the cache while the run goes on.
C14_LoadNeverAborts ==
  /\ pc \in RunPoints
  /\ pc = "start" =>
       cache = (IF disk0.state = "doc" THEN disk0.map ELSE EmptyMap)
  /\ (pc = "start" /\ disk0.state # "doc") => DOMAIN cache = {}
  /\ (pc \notin {"main", "interrupted"} /\ disk0.state = "doc") =>
       \A a \in DOMAIN disk0.map : a \in DOMAIN cache /\ cache[a] = disk0.map[a]

\* C15. Save failure is absorbed: after a checkpoint or final save that
\* failed, the run is where it is after a save that wrote (the resolution
\* about to return, or the batch done), never at an error exit; whatever the
\* save did, the resolution that ran the checkpoint returns its result with
\* the result in the cache and requests_count one per resolved address, and
\* the batch ends with every row passed; and a save that wrote left the
\* document equal to the whole in-memory map, so that it holds the entry of
\* every address resolved and of every address a failed save had to write.
C15_SaveFailureAbsorbed ==
  /\ saveOutcome = "failed" => pc \in {"return", "emit", "done"}
  /\ (pc = "return" /\ saveOutcome # "none") =>
       /\ address \in DOMAIN cache /\ cache[address] = result
       /\ requests_count = Cardinality(resolved \cup {address})
  /\ pc = "done" =>
       /\ saveOutcome \in {"written", "failed"}
       /\ requests_count = Cardinality(resolved)
       /\ i = Len(rows) + 1
       /\ \A a \in resolved : a \in DOMAIN cache
  /\ (saveOutcome = "written" /\ pc \in {"return", "done"}) =>
       /\ disk = JsonDump(cache)
       /\ \A a \in missed \cup resolved :
            a \in DOMAIN LoadCache(disk) /\ LoadCache(disk)[a] = cache[a]

\* With a checkpoint after every resolution, the first checkpoint failed and
\* the second has written both entries.
C15_Witness ==
  /\ pc = "return" /\ saveOutcome = "written"
  /\ checkpoint_interval = 1 /\ requests_count = 2
  /\ missed # {} /\ address \notin missed
  /\ DOMAIN LoadCache(disk) = missed \cup {address}

\* The dict r has latitude and longitude exactly if its status is success,
\* and then they lie in the inclusive box.
CoordinatesIffSuccess(r) ==
  /\ Has(r, "latitude") <=> r.status = "success"
  /\ Has(r, "longitude") <=> r.status = "success"
  /\ r.status = "success" =>
       /\ r.latitude >= MI_LAT_MIN /\ r.latitude <= MI_LAT_MAX
       /\ r.longitude >= MI_LON_MIN /\ r.longitude <= MI_LON_MAX

\* C16. Coordinate invariant: the result geocode_address holds after any
\* adapter call and the result it returns, every cache entry, every entry of
\* the document and the first return of every address have latitude and
\* longitude exactly if the status is success, inside the box; and an output
\* row has coordinates exactly if its status is success.
C16_CoordinateInvariant ==
  /\ result # NoResult => CoordinatesIffSuccess(result)
  /\ \A a \in DOMAIN cache : CoordinatesIffSuccess(cache[a])
  /\ \A a \in DOMAIN LoadCache(disk) :
       CoordinatesIffSuccess(LoadCache(disk)[a])
  /\ \A a \in DOMAIN returned : CoordinatesIffSuccess(returned[a])
  /\ \A j \in 1..Len(out) :
       /\ out[j].latitude # {} <=> out[j].geocode_status = {"success"}
       /\ out[j].longitude # {} <=> out[j].geocode_status = {"success"}

\* A city-level success and a failure are both in the cache, the first with
\* coordinates in the box and the second without coordinates.
C16_Witness ==
  /\ pc = "return"
  /\ \E a \in DOMAIN cache :
       cache[a].precision = "city" /\ Has(cache[a], "latitude")
  /\ \E a \in DOMAIN cache :
       cache[a].status = "out_of_bounds" /\ ~Has(cache[a], "latitude")

\* C17. Optional credentialed provider: when no Google key is configured,
\* the pipeline is never at the Google adapter and no provider call of a
\* resolution is Google's; no working result, cache entry, returned value or
\* output row has source google; google_requests is 0; and right after a
\* Photon call that did not succeed the pipeline is at the city fallback.
C17_OptionalGoogle ==
  ~google =>
    /\ pc # "google"
    /\ \A k \in 1..Len(called) : called[k].adapter # "google"
    /\ google_requests = 0
    /\ Get(result, "source", "none") # "google"
    /\ \A a \in DOMAIN cache : Get(cache[a], "source", "none") # "google"
    /\ \A a \in DOMAIN returned : Get(returned[a], "source", "none") # "google"
    /\ \A j \in 1..Len(out) : out[j].geocode_source # {"google"}
    /\ (called # <<>> /\ resp # NoResponse /\ LastCall.adapter = "photon"
          /\ ~LastCall.ok) => pc = "city"

\* Without a Google key, Photon failed and the next call, the city query,
\* succeeded.
C17_Witness ==
  /\ ~google /\ pc = "store"
  /\ Len(called) = 4
  /\ called[3].adapter = "photon" /\ ~called[3].ok
  /\ called[4].query = CityQuery /\ called[4].ok
  /\ result.source = "nominatim_city"

\* The last provider call failed for good: no location, a location outside
\* the box, an error that is not retried, or the last timeout.
CallFailed ==
  /\ resp # NoResponse
  /\ \/ resp.kind \in {"none", "service_error", "exception"}
     \/ resp.kind = "loc" /\ OutsideBox
     \/ resp.kind = "timeout" /\ pc \notin {"retry_sleep", "city_retry_sleep"}

\* C18. Failure containment: after a provider call of any adapter that
\* failed in any way, geocode_address holds a result with the failure status
\* of that outcome and is at the step that follows a failure of that adapter;
\* the run is always at a point of the pipeline, from which it goes on, or
\* has ended or been interrupted, never at an error exit; geocode_address
\* hands the loop a result with a status; a row's address is found in the
\* cache exactly if it was in the loaded cache or is the address of an
\* earlier row, and a new resolution starts at ArcGIS with no result and no
\* call carried over; and at the end of the batch every row has a status.
C18_FailureContainment ==
  /\ CallFailed =>
       /\ result.status = FailureStatus
       /\ pc = NextAfterFailure
  /\ pc \in RunPoints
  /\ pc = "emit" =>
       result.status \in {"success", "not_found", "out_of_bounds", "error"}
  /\ pc = "lookup" =>
       (address \in DOMAIN cache
          <=> (address \in DOMAIN LoadCache(disk0) \/ SecondCall))
  /\ pc = "arcgis" => result = NoResult /\ called = <<>> /\ attempt = 0
  /\ pc = "done" =>
       /\ i = Len(rows) + 1
       /\ \A j \in 1..Len(rows) : out[j].geocode_status # {}

\* The first address failed at every adapter, the last by an exception, and
\* the second row, a different address, was then resolved.
C18_Witness ==
  /\ pc = "done"
  /\ ~IsNa(rows[1]) /\ ~IsNa(rows[2]) /\ rows[1] # rows[2]
  /\ rows[1] \in resolved /\ rows[2] \in resolved
  /\ out[1].geocode_status = {"error"}
  /\ out[1].geocode_precision = {"failed"}
  /\ out[2].geocode_status = {"success"}

\* C19. Extraction failure: when the result is about to be cached after
\* every configured address-level adapter failed and no city can be extracted
\* from the address, no city query was made and the result has precision
\* failed and status not_found, whatever the last adapter returned.
C19_ExtractionFailure ==
  (pc = "store" /\ ~HasCity /\ ~called[1].ok) =>
    /\ \A k \in 1..Len(called) : called[k].query = AddressQuery
    /\ result.precision = "failed"
    /\ result.status = "not_found"

\* C20. Permanent errors are not retried: right after a provider call of any
\* adapter that raised a service error other than timeout/unavailable, or
\* any other exception, the adapter has returned status error with a message
\* and no coordinates, and the pipeline is at the step that follows a
\* failure of that adapter (the next adapter, the city fallback, or the
\* caching of the failed result), not at a retry; for Nominatim this holds
\* at every attempt number.
C20_PermanentErrorsNotRetried ==
  resp.kind \in {"service_error", "exception"} =>
    /\ ~LastCall.ok
    /\ result.status = "error" /\ Has(result, "message")
    /\ ~Has(result, "latitude") /\ ~Has(result, "longitude")
    /\ pc = NextAfterFailure
    /\ LastCall.adapter = "nominatim" =>
         CallsOf(LastCall.query) \in 1..(Retries + 1)

\* Nominatim timed out once, was retried, raised a service error on the
\* second call, and the pipeline is at Photon.
C20_Witness ==
  /\ pc = "photon" /\ resp.kind = "service_error"
  /\ CallsOf(AddressQuery) = 2
  /\ result.status = "error"

\* ---------------------------------------------------------------------------
\* A second run on the same cache file.

\* geocode_addresses.py is run again with the same arguments on the same CSV
\* after the first run ended, its batch complete or interrupted: a new
\* process, whose GeocodingService() loads the cache from the file as the
\* first run left it and starts its counters at 0, and whose
\* geocode_dataframe starts on a fresh frame.
Rerun ==
  /\ pc \in {"done", "interrupted"} /\ run = 1
  /\ run' = 2
  /\ disk0' = disk
  /\ cache' = LoadCache(disk)
  /\ requests_count' = 0
  /\ google_requests' = 0
  /\ googleCalls' = 0
  /\ rows' = Frame(input, test_mode, test_limit)
  /\ out' = BlankFrame(rows')
  /\ pc' = "loop"
  /\ i' = 1
  /\ attempt' = 0
  /\ result' = NoResult
  /\ saveFrom' = "none"
  /\ resp' = NoResponse
  /\ called' = <<>>
  /\ slept' = FALSE
  /\ usedProvider' = FALSE
  /\ saveOutcome' = "none"
  /\ resolved' = {}
  /\ order' = <<>>
  /\ returned' = EmptyMap
  /\ missed' = {}
  /\ UNCHANGED << input, test_mode, test_limit, google, checkpoint_interval,
                  disk >>

NextResume == Next \/ Rerun

\* The first run starts without a cache file and checkpoints after every
\* resolution.
InitResume == Init /\ disk0 = Absent /\ checkpoint_interval = 1

SpecResume == InitResume /\ [][NextResume]_vars

\* ---------------------------------------------------------------------------
\* The correction workflow of recode_city_level.py, run after a complete
\* batch on the geocoded CSV that main wrote and on the same cache file.

\* df.to_csv: NaN is written as an empty field, a string as its text.
WriteCsv(a) == IF a.na THEN <<>> ELSE a.text

\* city_level_df: the rows of the geocoded CSV, read back, whose
\* geocode_precision is 'city'.
CityLevel(df) ==
  LET sel == SelectSeq(df, LAMBDA r : r.geocode_precision = Some("city"))
  IN  [j \in 1..Len(sel) |-> ReadCsv(WriteCsv(sel[j].address))]

\* addresses_to_clear = city_level_df['address'].dropna().unique()
AddressesToClear(df) ==
  { df[j] : j \in { n \in 1..Len(df) : ~IsNa(df[n]) } }

\* Recode with the bug of not deleting the cache entries.
RecodeKeepsEntries ==
  /\ pc = "done" /\ run = 1
  /\ Len(CityLevel(out)) > 0
  /\ run' = 2
  /\ disk0' = disk
  /\ rows' = CityLevel(out)
  /\ cache' = LoadCache(disk)
  /\ requests_count' = 0
  /\ google_requests' = 0
  /\ googleCalls' = 0
  /\ out' = <<>>
  /\ pc' = "save_open"
  /\ saveFrom' = "clear"
  /\ i' = 1
  /\ attempt' = 0
  /\ result' = NoResult
  /\ resp' = NoResponse
  /\ called' = <<>>
  /\ slept' = FALSE
  /\ usedProvider' = FALSE
  /\ saveOutcome' = "none"
  /\ resolved' = {}
  /\ order' = <<>>
  /\ returned' = EmptyMap
  /\ missed' = {}
  /\ UNCHANGED << input, test_mode, test_limit, google, checkpoint_interval,
                  disk >>

\* main of recode_city_level.py up to its call of _save_cache: it returns
\* when no row is city-level; else it constructs a GeocodingService on the
\* cache file and deletes from its cache the entry of every city-level
\* address that has one.
Recode ==
  /\ pc = "done" /\ run = 1
  /\ Len(CityLevel(out)) > 0
  /\ run' = 2
  /\ disk0' = disk
  /\ rows' = CityLevel(out)
  /\ cache' = [a \in DOMAIN LoadCache(disk) \ AddressesToClear(rows') |->
                 LoadCache(disk)[a]]
  /\ requests_count' = 0
  /\ google_requests' = 0
  /\ googleCalls' = 0
  /\ out' = <<>>
  /\ pc' = "save_open"
  /\ saveFrom' = "clear"
  /\ i' = 1
  /\ attempt' = 0
  /\ result' = NoResult
  /\ resp' = NoResponse
  /\ called' = <<>>
  /\ slept' = FALSE
  /\ usedProvider' = FALSE
  /\ saveOutcome' = "none"
  /\ resolved' = {}
  /\ order' = <<>>
  /\ returned' = EmptyMap
  /\ missed' = {}
  /\ UNCHANGED << input, test_mode, test_limit, google, checkpoint_interval,
                  disk >>

\* geocoder.geocode_dataframe(city_level_df) up to its loop, after
\* _save_cache has returned: the copy of the frame with the result columns
\* set to None.
RecodeFrame ==
  /\ pc = "recode"
  /\ out' = BlankFrame(rows)
  /\ pc' = "loop"
  /\ saveFrom' = "none"
  /\ saveOutcome' = "none"
  /\ UNCHANGED << Config, Counters, disk, cache, i, attempt, result, resp,
                  called, slept, usedProvider, History >>

NextRecode == Next \/ Recode \/ RecodeFrame

\* The first run checkpoints after every resolution.
InitRecode == Init /\ checkpoint_interval = 1

SpecRecode == InitRecode /\ [][NextRecode]_vars

\* ---------------------------------------------------------------------------
\* C21  Whatever a provider does, the adapter called returns a status among
\* success, not_found, out_of_bounds and error: the result geocode_address
\* holds right after a provider call has one of the four, a call that is not
\* retried leaves the retry loop by a return, and the statement after the loop
\* of _geocode_with_retry, which returns status failed, is never reached, so
\* no result and no cache entry of the run has status failed.
AdapterStatuses == {"success", "not_found", "out_of_bounds", "error"}

C21_AdapterStatusRange ==
  /\ \A r \in Responses :
       /\ GeocodeWithArcgis(r).status \in AdapterStatuses
       /\ GeocodeWithPhoton(r).status \in AdapterStatuses
       /\ GeocodeWithGoogle(r).status \in AdapterStatuses
       /\ \A att \in 0..Retries :
            ~RetryAgain(r, att) => GeocodeWithRetry(r).status \in AdapterStatuses
  /\ result # NoResult => result.status \in AdapterStatuses
  /\ pc \in {"retry_sleep", "city_retry_sleep"} => attempt < Retries
  /\ \A a \in resolved : cache[a].status \in AdapterStatuses

\* The city query has timed out on every attempt the loop has, and the
\* adapter returned status error.
C21_Witness ==
  /\ pc = "store"
  /\ CallsOf(CityQuery) = Retries + 1
  /\ resp.kind = "timeout"
  /\ result.status = "error"

\* ---------------------------------------------------------------------------
\* C22  Final flush: when the batch has completed (not interrupted) and its
\* final save did not fail, the durable document is a well-formed document
\* equal to the whole in-memory cache, and it holds an entry for every
\* non-empty address of the processed rows, the one the row was given;
\* this holds whether or not the number of resolutions of the run is a
\* multiple of the checkpoint interval.
C22_FinalFlush ==
  (pc = "done" /\ saveOutcome # "failed") =>
    /\ disk.state = "doc"
    /\ LoadCache(disk) = cache
    /\ \A j \in 1..Len(rows) :
         ~IsNa(rows[j]) =>
           /\ rows[j] \in DOMAIN LoadCache(disk)
           /\ out[j] = ResultRow(BlankRow(j, rows[j]),
                                LoadCache(disk)[rows[j]])

\* The batch is done with one address resolved under an interval of two: no
\* checkpoint ran, and the final save wrote the entry.
C22_Witness ==
  /\ pc = "done" /\ saveOutcome = "written"
  /\ checkpoint_interval = 2 /\ requests_count = 1
  /\ resolved # {} /\ resolved \subseteq DOMAIN LoadCache(disk)

\* ---------------------------------------------------------------------------
\* The distinct non-empty addresses of rows 1..k that the cache loaded at
\* construction did not hold.
PrefixNew(k) ==
  { rows[j] : j \in { n \in 1..k : ~IsNa(rows[n]) } } \ DOMAIN LoadCache(disk0)

\* The addresses added to the cache in this run.
AddedThisRun == DOMAIN cache \ DOMAIN LoadCache(disk0)

\* C23  Checkpoints reflect a prefix: while a checkpoint save runs, and when
\* it has returned, the addresses added to the cache in this run are exactly
\* the distinct non-empty addresses, not cached before the run, of the rows
\* up to the current one; the entries loaded at construction are still
\* there; and a checkpoint that wrote left the document equal to that cache.
C23_CheckpointPrefix ==
  /\ (pc \in {"save_open", "save_dump"} /\ saveFrom = "checkpoint") =>
       /\ AddedThisRun = PrefixNew(i)
       /\ DOMAIN LoadCache(disk0) \subseteq DOMAIN cache
  /\ (pc = "return" /\ saveOutcome = "written") =>
       /\ AddedThisRun = PrefixNew(i)
       /\ DOMAIN LoadCache(disk) = DOMAIN LoadCache(disk0) \cup PrefixNew(i)

\* The checkpoint of the second row is writing, under an interval of two,
\* with both rows' addresses added in this run.
C23_Witness ==
  /\ pc = "save_dump" /\ saveFrom = "checkpoint"
  /\ i = 2 /\ checkpoint_interval = 2
  /\ AddedThisRun = {rows[1], rows[2]}

\* ---------------------------------------------------------------------------
\* C24  Paid-call accounting: the counter google_requests that the summary
\* reports equals the number of calls made to the Google adapter in the run,
\* whatever status each call returned.
C24_PaidCallAccounting == google_requests = googleCalls

\* ---------------------------------------------------------------------------
\* The run in progress is the second one and the file it was constructed on
\* is a well-formed document.
Resumed == run = 2 /\ disk0.state = "doc"

\* C25  Resumption across runs.  When a run ends with a final save that wrote
\* and the command is run again on the same file, the new service's cache is
\* the first run's in-memory map.  In a second run constructed on a
\* well-formed document: every entry of the document is in the cache with its
\* value, all through the run; a row whose address has an entry, success or
\* failed, is returned the stored result by a cache hit, with no provider
\* call and no rate-limit delay, and is never counted in requests_count; a
\* provider is only ever about to be called, and an address only resolved,
\* for an address the document did not hold.
C25_Resumption ==
  /\ [][(pc = "done" /\ saveOutcome = "written" /\ run' = 2) =>
          (cache' = cache /\ requests_count' = 0)]_vars
  /\ [](Resumed =>
          /\ \A a \in DOMAIN disk0.map :
               a \in DOMAIN cache /\ cache[a] = disk0.map[a]
          /\ resolved \cap DOMAIN disk0.map = {}
          /\ (pc \in RunPoints \ {"loop", "done", "interrupted"}
                /\ i <= Len(rows) /\ address \in DOMAIN disk0.map) =>
                 /\ pc \in {"lookup", "emit"}
                 /\ called = <<>> /\ ~usedProvider /\ ~slept
                 /\ pc = "emit" => result = disk0.map[address]
          /\ pc \in {"loop", "lookup", "done"} =>
                requests_count = Cardinality(resolved))

\* In the second run the second row is served from the document the first
\* run left, by an entry that is a failed result.
C25_Witness ==
  /\ Resumed /\ pc = "emit" /\ i = 2
  /\ rows[1] # rows[2]
  /\ address \in DOMAIN disk0.map
  /\ result.status # "success"
  /\ ~usedProvider

\* ---------------------------------------------------------------------------
\* The correction run is in progress, past the deletion of the entries.
Recoding == run = 2

\* C26  Re-resolution overwrites.  In the correction workflow, once the
\* entries of the city-level addresses are deleted and the cache saved, none
\* of those addresses is in the cache, nor in the document if the save
\* wrote; the first row of each such address is a cache miss, so providers
\* are consulted anew; from the return of that resolution to the end of the
\* run the cache holds for the address the result it returned; the entries
\* of all other addresses stay as they were loaded and no other key is
\* added; and after a final save that wrote, the document equals the cache
\* and so holds, for each re-resolved address, the new result alone.
C26_ReResolutionOverwrites ==
  Recoding =>
    /\ pc = "recode" =>
         /\ AddressesToClear(rows) \cap DOMAIN cache = {}
         /\ saveOutcome = "written" =>
              AddressesToClear(rows) \cap DOMAIN LoadCache(disk) = {}
    /\ (pc = "lookup" /\ address \notin resolved) =>
         address \notin DOMAIN cache
    /\ pc = "return" => usedProvider /\ cache[address] = result
    /\ \A a \in resolved :
         /\ a \in AddressesToClear(rows)
         /\ a \in DOMAIN cache /\ cache[a] = returned[a]
    /\ DOMAIN cache \ AddressesToClear(rows) =
         DOMAIN LoadCache(disk0) \ AddressesToClear(rows)
    /\ \A a \in DOMAIN cache \ AddressesToClear(rows) :
         cache[a] = LoadCache(disk0)[a]
    /\ (pc = "done" /\ saveOutcome = "written") =>
         /\ LoadCache(disk) = cache
         /\ \A a \in AddressesToClear(rows) :
              a \in DOMAIN LoadCache(disk) /\ LoadCache(disk)[a] = returned[a]

\* The correction run is done and its final save wrote: an address whose
\* entry was city-level now has an address-level entry in the document, and
\* the entry of another address is as it was.
C26_Witness ==
  /\ Recoding /\ pc = "done" /\ saveOutcome = "written"
  /\ \E a \in AddressesToClear(rows) :
       /\ a \in DOMAIN LoadCache(disk0)
       /\ LoadCache(disk0)[a].precision = "city"
       /\ LoadCache(disk)[a].precision = "address"
  /\ \E b \in DOMAIN LoadCache(disk0) \ AddressesToClear(rows) :
       LoadCache(disk)[b] = LoadCache(disk0)[b]

\* ---------------------------------------------------------------------------
\* Where geocode_address is inside the rate-limit delay, a provider call, the
\* retry delay, or between two of them.
InFlight ==
  { "sleep", "arcgis", "nominatim", "retry_sleep", "photon", "google", "city",
    "city_query", "city_retry_sleep" }

\* The dict r is a complete result: status, precision, the coordinates
\* exactly if it is a success, and the source exactly if it is a success.
CompleteResult(r) ==
  /\ Has(r, "status") /\ Has(r, "precision")
  /\ CoordinatesIffSuccess(r)
  /\ Has(r, "source") <=> r.status = "success"

\* C27  No partial entries.  A cancellation that arrives while a resolution
\* is in the rate-limit delay, a provider call or the retry delay ends the
\* run (it does not become a result) and leaves the cache, the document and
\* requests_count as they were, the cache without an entry for the address
\* in flight; while a resolution is in flight its address has no entry and
\* is not counted; and every entry of the cache is a complete result.
C27_NoPartialEntries ==
  /\ [][(pc \in InFlight /\ pc' = "interrupted") =>
          /\ cache' = cache /\ address \notin DOMAIN cache'
          /\ requests_count' = requests_count
          /\ disk' = disk
          /\ result' = NoResult]_vars
  /\ [](/\ pc \in InFlight =>
             /\ address \notin DOMAIN cache
             /\ requests_count = Cardinality(resolved)
         /\ \A a \in DOMAIN cache : CompleteResult(cache[a]))

\* The run was cancelled during the resolution of the second row, after the
\* first row's resolution had been cached and counted: the second address
\* has no entry.
C27_Witness ==
  /\ pc = "interrupted" /\ i = 2 /\ order = <<1, 2>>
  /\ rows[1] \in DOMAIN cache /\ rows[2] \notin DOMAIN cache
  /\ requests_count = 1

\* ---------------------------------------------------------------------------
\* The precision and the source of the dict r agree with its status.
PrecisionSourceConsistent(r) ==
  /\ Has(r, "precision")
  /\ r.precision \in {"address", "city", "failed"}
  /\ r.precision = "failed" <=> r.status # "success"
  /\ Has(r, "source") <=> r.status = "success"
  /\ r.precision = "address" <=>
       (Has(r, "source")
          /\ r.source \in {"arcgis", "nominatim", "photon", "google"})
  /\ r.precision = "city" <=>
       (Has(r, "source") /\ r.source = "nominatim_city")

\* C28  Precision/source consistency of cache-miss results: the result a
\* resolution is about to cache, has cached, or has returned has precision
\* address, city or failed; failed exactly when its status is not success; a
\* source exactly when its status is success; a source among arcgis,
\* nominatim, photon, google exactly when the precision is address, and
\* nominatim_city exactly when it is city.
C28_PrecisionSourceConsistency ==
  /\ pc \in {"store", "car_store", "count", "car_count", "return"} =>
       PrecisionSourceConsistent(result)
  /\ (pc \in {"save_open", "save_dump"} /\ saveFrom = "checkpoint") =>
       PrecisionSourceConsistent(result)
  /\ \A a \in resolved :
       PrecisionSourceConsistent(returned[a])
         /\ PrecisionSourceConsistent(cache[a])

\* The second resolution returns a city-level result after the first
\* returned a failed one.
C28_Witness ==
  /\ pc = "return" /\ i = 2
  /\ result.precision = "city" /\ result.source = "nominatim_city"
  /\ rows[1] \in resolved /\ returned[rows[1]].precision = "failed"

\* ---------------------------------------------------------------------------
\* No save of the run has failed with something to write.
EverySaveSucceeded == missed = {}

\* The entries added to the cache in this run that the document lacks.
Unsaved == AddedThisRun \ DOMAIN LoadCache(disk)

\* The entries of the document are entries of the cache, with equal values.
DocumentWithinCache ==
  \A a \in DOMAIN LoadCache(disk) :
    a \in DOMAIN cache /\ cache[a] = LoadCache(disk)[a]

\* requests_count is one per cache-miss resolution: the resolutions that
\* have returned, and the one in progress once it is counted.
CountedOncePerMiss ==
  requests_count =
    Cardinality(resolved)
      + (IF pc \in {"save_open", "save_dump"} /\ saveFrom = "checkpoint"
         THEN 1 ELSE IF pc = "return" THEN 1 ELSE 0)

InsertedNotCheckpointed ==
  {"count", "car_count", "save_open", "save_dump", "interrupted"}

StepsLeft ==
  CASE pc = "loop" -> 40
    [] pc = "lookup" -> 39
    [] pc = "sleep" -> 38
    [] pc = "arcgis" -> 37
    [] pc = "nominatim" -> 36 - 2 * attempt
    [] pc = "retry_sleep" -> 35 - 2 * attempt
    [] pc = "photon" -> 30
    [] pc = "google" -> 29
    [] pc = "city" -> 28
    [] pc = "city_query" -> 27 - 2 * attempt
    [] pc = "city_retry_sleep" -> 26 - 2 * attempt
    [] pc \in {"store", "car_store"} -> 21
    [] pc \in {"count", "car_count"} -> 19
    [] pc = "save_open" -> 18
    [] pc = "save_dump" -> 17
    [] pc = "return" -> 16
    [] pc = "emit" -> 15
    [] OTHER -> 0

\* A bound on the steps the batch has left: 0 when it has ended.
Measure ==
  IF pc \in {"done", "interrupted", "failed"} THEN 0
  ELSE (Len(rows) + 1 - i) * 100 + StepsLeft

\* The provider calls one call of geocode_address may make at most: ArcGIS,
\* Nominatim with its retries, Photon, Google if configured, and the city
\* query with its retries.
MaxProviderCalls ==
  1 + (Retries + 1) + 1 + (IF google THEN 1 ELSE 0) + (Retries + 1)

\* The calls made to the adapter ad in the resolution in progress.
CallsTo(ad) == Len(SelectSeq(called, LAMBDA c : c.adapter = ad))

\* C30  Termination with bounded provider calls.  Every step of a batch
\* lowers a bound on the steps left that is never negative, so every call of
\* geocode_address and every batch ends whatever the providers answer; one
\* call of geocode_address makes at most 1 + 3 + 1 + 1 + 3 = 9 provider calls
\* (8 without Google): one to ArcGIS, Photon and Google each, and 3 to
\* Nominatim for the address and 3 for the city; and a resolution only ever
\* runs for an address that is not in the cache and was not resolved before,
\* so each distinct uncached address is resolved at most once.
C30_Termination ==
  /\ [][Measure' < Measure]_vars
  /\ [](/\ Measure >= 0
         /\ Len(called) <= MaxProviderCalls /\ MaxProviderCalls <= 9
         /\ CallsTo("arcgis") <= 1 /\ CallsTo("photon") <= 1
         /\ CallsTo("google") <= 1
         /\ CallsTo("nominatim") <= 2 * (Retries + 1)
         /\ pc \in InFlight =>
              address \notin resolved /\ address \notin DOMAIN cache
         /\ requests_count <= Cardinality(PrefixNew(Len(rows))))

\* A resolution has made nine provider calls, the most one can make: every
\* provider failed and both Nominatim queries timed out on every attempt.
C30_Witness ==
  /\ pc = "store" /\ google
  /\ Len(called) = 9
  /\ CallsTo("nominatim") = 6


====
